---- MODULE Spec2Model ----
(***************************************************************************)
(* A model of jetpack's ionic (IO and display utilities) and style         *)
(* (matplotlib style defaults) modules.                                    *)
(*                                                                         *)
(* The four components are independent of each other, so each has its own  *)
(* specification over the shared variables:                                *)
(*   SpecStyle   rcParams under set_colors / set_font / light_mode /       *)
(*               dark_mode (style.py); SpecPresets is the same without     *)
(*               direct set_colors calls                                   *)
(*   SpecNotify  one use of the notify context manager (ionic.py)          *)
(*   SpecCsv     one call of csv (ionic.py)                                *)
(*   SpecCap     the import-time fallbacks for pushover and emoji, then    *)
(*               push and pem calls (ionic.py)                             *)
(* Strings whose content matters (CSV text) are sequences of one-character *)
(* strings; all other strings are TLA+ strings.                            *)
(***************************************************************************)
EXTENDS Integers, Sequences, FiniteSets, TLC

VARIABLES
    \* ---- style.py
    rcParams,       \* matplotlib.rcParams restricted to the keys style.py touches
    ttflist,        \* names of fm.fontManager.ttflist, in registry order
    stylePc,        \* position inside light_mode / dark_mode, or "idle"
    lastCall,       \* the style call made last: [op, arg, raised]
    prevCall,       \* the style call made before it
    \* ---- ionic.py: notify
    nPc,            \* position of the with-statement using notify
    title,          \* notify's argument
    written,        \* writes to sys.stdout, in order: [by, text]
    flushedLen,     \* how many of them have been flushed
    lineBuffered,   \* whether sys.stdout flushes at each newline (a tty)
    events,         \* observable events of the with-statement, in order
    bodyOutcome,    \* how the enclosed operation ended
    propagated,     \* what the caller of the with-statement receives
    \* ---- ionic.py: csv
    csvPc,          \* position inside csv
    cFilename,      \* csv's filename argument (rebound at line 63)
    cData,          \* csv's data argument: [ndim, shape]
    cHeaders,       \* csv's headers argument: [given, list]
    hdr,            \* csv's local hdr
    csvRaised,      \* the error csv raised, or "none"
    fs0,            \* the file system when csv was called
    fs,             \* the file system: filename -> content or Absent
    fsWrites,       \* filenames written during the call, in order
    \* ---- ionic.py: optional capabilities, push, pem
    importPc,       \* position of the module's import
    pushover_installed, \* whether `from pushover import Client` succeeds
    emoji_installed,    \* whether `from emoji import emojize` succeeds
    filterAction,   \* the warnings filter that applies to UserWarning
    warning,        \* the module global `warning`
    Client,         \* what the name Client is bound to: "Live" | "Stub"
    emojize,        \* what the name emojize is bound to: "Live" | "Stub"
    registry,       \* warnings' once-per-location registry: {<<text, lineno>>}
    emitted,        \* the warnings shown, in order: [text, lineno]
    sent,           \* messages handed to the real push transport
    printed,        \* what pem printed
    capLast,        \* the push / pem call made last: [op, message, title, raised]
    nCalls          \* push and pem calls made so far

styleVars == <<rcParams, ttflist, stylePc, lastCall, prevCall>>
notifyVars == <<nPc, title, written, flushedLen, lineBuffered, events,
                bodyOutcome, propagated>>
csvVars == <<csvPc, cFilename, cData, cHeaders, hdr, csvRaised, fs0, fs, fsWrites>>
capVars == <<importPc, pushover_installed, emoji_installed, filterAction, warning,
             Client, emojize, registry, emitted, sent, printed, capLast, nCalls>>
vars == <<styleVars, notifyVars, csvVars, capVars>>

\* A value of Python's None.
None == "None"

(***************************************************************************)
(* style.py                                                                *)
(***************************************************************************)

\* The palette of jetpack.colors that light_mode and dark_mode use.
c == [white |-> "c.white", black |-> "c.black",
      gray |-> [v1 |-> "c.gray.v1", v4 |-> "c.gray.v4",
                v6 |-> "c.gray.v6", v9 |-> "c.gray.v9"],
      dark |-> "c.dark", bright |-> "c.bright"]

\* cycler(color=palette)
cycler(palette) == <<"cycler", "color", palette>>

\* The keys set_colors updates, by the argument each takes.
BgKeys == {"figure.facecolor", "figure.edgecolor", "axes.facecolor",
           "savefig.facecolor", "savefig.edgecolor"}
FgKeys == {"axes.edgecolor", "axes.labelcolor", "xtick.color", "ytick.color",
           "legend.edgecolor", "grid.color"}
TextKeys == {"text.color"}
ColorKeys == BgKeys \cup FgKeys \cup TextKeys

\* Keys of the baseline configuration that no operation changes afterwards.
BaselineKeys == {"lines.linewidth", "font.size", "savefig.format"}
RcKeys == ColorKeys \cup BaselineKeys \cup {"axes.prop_cycle", "font.family"}

\* matplotlib's own default for the keys the baseline update does not set.
MplDefault == "mpl.default"

\* rcParams after the module-level rcParams.update({...}).
BaselineParams ==
    [k \in RcKeys |->
        CASE k = "lines.linewidth" -> "1.5"
          [] k = "font.size" -> "12"
          [] k = "savefig.format" -> "pdf"
          [] k = "axes.prop_cycle" -> cycler(MplDefault)
          [] OTHER -> MplDefault]

\* rcParams.update(mapping): merge the given keys into params.
RcUpdate(params, mapping) ==
    [k \in DOMAIN params |-> IF k \in DOMAIN mapping THEN mapping[k] ELSE params[k]]

\* The mapping set_colors hands to rcParams.update.
ColorMapping(bg, fg, text) ==
    [k \in ColorKeys |-> IF k \in BgKeys THEN bg ELSE IF k \in FgKeys THEN fg ELSE text]

\* A buggy set_colors: the text colour is passed where the foreground belongs.
SetColorsSwapped(params, bg, fg, text) == RcUpdate(params, ColorMapping(bg, text, text))

\* set_colors(bg, fg, text) as a function of rcParams.
SetColors(params, bg, fg, text) == RcUpdate(params, ColorMapping(bg, fg, text))

\* available_fonts(): the distinct names of the font registry.  (The code
\* also sorts them; only membership is used by set_font.)
available_fonts == {ttflist[i] : i \in DOMAIN ttflist}

\* The arguments the calls are tried with.
BgInputs == {c.white, c.black}
FgInputs == {c.gray.v9, c.gray.v1}
TextInputs == {c.gray.v6, c.gray.v4, "red"}
FontInputs == {"DejaVu Sans", "Helvetica", "NonexistentFontXYZ"}
FontRegistries == {<<>>, <<"DejaVu Sans">>, <<"Helvetica", "DejaVu Sans", "DejaVu Sans">>}

NoCall == [op |-> "none", arg |-> <<>>, raised |-> "none"]
Call(op, arg, raised) == [op |-> op, arg |-> arg, raised |-> raised]

StyleStart ==
    /\ rcParams = BaselineParams
    /\ ttflist \in FontRegistries
    /\ stylePc = "idle"
    /\ lastCall = NoCall
    /\ prevCall = NoCall

\* set_colors called directly.
set_colors(bg, fg, text) ==
    /\ UNCHANGED <<notifyVars, csvVars, capVars>>
    /\ stylePc = "idle"
    /\ rcParams' = SetColors(rcParams, bg, fg, text)
    /\ prevCall' = lastCall
    /\ lastCall' = Call("set_colors", <<bg, fg, text>>, "none")
    /\ UNCHANGED <<ttflist, stylePc>>

\* A buggy set_font: the parameter is updated before the name is validated.
set_font_update_first(fontname) ==
    /\ UNCHANGED <<notifyVars, csvVars, capVars>>
    /\ stylePc = "idle"
    /\ rcParams' = RcUpdate(rcParams, [k \in {"font.family"} |-> fontname])
    /\ prevCall' = lastCall
    /\ lastCall' = Call("set_font", <<fontname>>,
                        IF fontname \notin available_fonts THEN "ValueError" ELSE "none")
    /\ UNCHANGED <<ttflist, stylePc>>

\* set_font(fontname)
set_font(fontname) ==
    /\ UNCHANGED <<notifyVars, csvVars, capVars>>
    /\ stylePc = "idle"
    /\ IF fontname \notin available_fonts
       THEN /\ lastCall' = Call("set_font", <<fontname>>, "ValueError")
            /\ UNCHANGED rcParams
       ELSE /\ rcParams' = RcUpdate(rcParams, [k \in {"font.family"} |-> fontname])
            /\ lastCall' = Call("set_font", <<fontname>>, "none")
    /\ prevCall' = lastCall
    /\ UNCHANGED <<ttflist, stylePc>>

\* light_mode(), first statement: set_colors(c.white, c.gray.v9, c.gray.v6)
light_mode_set_colors ==
    /\ UNCHANGED <<notifyVars, csvVars, capVars>>
    /\ stylePc = "idle"
    /\ rcParams' = SetColors(rcParams, c.white, c.gray.v9, c.gray.v6)
    /\ stylePc' = "light_mode:111"
    /\ UNCHANGED <<ttflist, lastCall, prevCall>>

\* light_mode(), second statement: rcParams['axes.prop_cycle'] = cycler(color=c.dark)
light_mode_prop_cycle ==
    /\ UNCHANGED <<notifyVars, csvVars, capVars>>
    /\ stylePc = "light_mode:111"
    /\ rcParams' = [rcParams EXCEPT !["axes.prop_cycle"] = cycler(c.dark)]
    /\ stylePc' = "idle"
    /\ prevCall' = lastCall
    /\ lastCall' = Call("light_mode", <<>>, "none")
    /\ UNCHANGED ttflist

\* dark_mode(), first statement: set_colors(c.black, c.gray.v1, c.gray.v4)
dark_mode_set_colors ==
    /\ UNCHANGED <<notifyVars, csvVars, capVars>>
    /\ stylePc = "idle"
    /\ rcParams' = SetColors(rcParams, c.black, c.gray.v1, c.gray.v4)
    /\ stylePc' = "dark_mode:117"
    /\ UNCHANGED <<ttflist, lastCall, prevCall>>

\* dark_mode(), second statement: rcParams['axes.prop_cycle'] = cycler(color=c.bright)
dark_mode_prop_cycle ==
    /\ UNCHANGED <<notifyVars, csvVars, capVars>>
    /\ stylePc = "dark_mode:117"
    /\ rcParams' = [rcParams EXCEPT !["axes.prop_cycle"] = cycler(c.bright)]
    /\ stylePc' = "idle"
    /\ prevCall' = lastCall
    /\ lastCall' = Call("dark_mode", <<>>, "none")
    /\ UNCHANGED ttflist

NextPresets ==
    \/ \E fontname \in FontInputs : set_font(fontname)
    \/ light_mode_set_colors
    \/ light_mode_prop_cycle
    \/ dark_mode_set_colors
    \/ dark_mode_prop_cycle

NextStyle ==
    \/ \E bg \in BgInputs, fg \in FgInputs, text \in TextInputs : set_colors(bg, fg, text)
    \/ \E fontname \in FontInputs : set_font(fontname)
    \/ light_mode_set_colors
    \/ light_mode_prop_cycle
    \/ dark_mode_set_colors
    \/ dark_mode_prop_cycle


(***************************************************************************)
(* ionic.py: unicodes and notify                                           *)
(***************************************************************************)

\* The glyph table, as <<name, code point>>.
UnicodeTable ==
    { <<"mu", "U+03BC">>, <<"degrees", "U+00B0">>, <<"micro", "U+00B5">>,
      <<"lambda", "U+03BB">>, <<"gamma", "U+03B3">>, <<"pi", "U+03C0">>,
      <<"Pi", "U+220F">>, <<"tau", "U+03C4">>, <<"sigma", "U+03C3">>,
      <<"rho", "U+03C1">>, <<"kappa", "U+03BA">>, <<"theta", "U+03B8">>,
      <<"epsilon", "U+03B5">>, <<"delta", "U+03B4">>, <<"Delta", "U+0394">>,
      <<"phi", "U+03C6">>, <<"Phi", "U+03A6">>, <<"check", "U+2714">>,
      <<"x", "U+2718">>, <<"star", "U+272F">>, <<"arrow", "U+279B">>,
      <<"pm", "U+00B1">>, <<"gradient", "U+2206">>, <<"nabla", "U+2207">>,
      <<"in", "U+2208">>, <<"exists", "U+2203">>, <<"forall", "U+2200">>,
      <<"not_in", "U+2209">>, <<"int", "U+222B">>, <<"grad", "U+2202">>,
      <<"partial", "U+2202">>, <<"sqrt", "U+221A">>, <<"geq", "U+2265">>,
      <<"leq", "U+2264">>, <<"neq", "U+2260">>, <<"approx", "U+2243">>,
      <<"infty", "U+221E">>, <<"cdot", "U+2219">>, <<"Sigma", "U+2211">>,
      <<"sum", "U+2211">>, <<"prod", "U+220F">>, <<"cloud", "U+2601">>,
      <<"umbrella", "U+2602">>, <<"snowflake", "U+2600">>, <<"dollar", "U+0024">> }

unicodes ==
    [k \in {p[1] : p \in UnicodeTable} |-> (CHOOSE p \in UnicodeTable : p[1] = k)[2]]

\* How many lines the enclosed operation may write itself.
MaxBodyWrites == 2

NotifyTitles == {"Loading", "Working", ""}
BodyOutcomes == {"normal", "RuntimeError", "ValueError", "KeyboardInterrupt"}

\* f"{unicodes['arrow']}  {title}..." printed with end=''
LoadingLine(t) == <<unicodes["arrow"], "  ", t, "...">>
\* f"Done! {unicodes['check']}" printed with the default end
DoneLine == <<"Done! ", unicodes["check"], "\n">>
BodyLine == <<"body output", "\n">>

EndsWithNewline(text) == Len(text) > 0 /\ text[Len(text)] = "\n"

\* A write of text to sys.stdout by `who`; a line-buffered stream flushes at a newline.
StdoutWrite(who, text) ==
    /\ written' = Append(written, [by |-> who, text |-> text])
    /\ flushedLen' = IF lineBuffered /\ EndsWithNewline(text)
                     THEN Len(written) + 1 ELSE flushedLen

NotifyStart ==
    /\ nPc = "caller"
    /\ title = None
    /\ written = <<>>
    /\ flushedLen = 0
    /\ lineBuffered \in BOOLEAN
    /\ events = <<>>
    /\ bodyOutcome = "running"
    /\ propagated = "none"

\* with notify(t): entry, up to the print of the loading line.
notify_print_loading(t) ==
    /\ UNCHANGED <<styleVars, csvVars, capVars>>
    /\ nPc = "caller"
    /\ title' = t
    /\ StdoutWrite("notify", LoadingLine(t))
    /\ events' = Append(events, "print_loading")
    /\ nPc' = "135"
    /\ UNCHANGED <<lineBuffered, bodyOutcome, propagated>>

\* sys.stdout.flush()
notify_flush ==
    /\ UNCHANGED <<styleVars, csvVars, capVars>>
    /\ nPc = "135"
    /\ flushedLen' = Len(written)
    /\ events' = Append(events, "flush")
    /\ nPc' = "137"
    /\ UNCHANGED <<title, written, lineBuffered, bodyOutcome, propagated>>

\* yield: control passes to the enclosed operation.
notify_yield ==
    /\ UNCHANGED <<styleVars, csvVars, capVars>>
    /\ nPc = "137"
    /\ events' = Append(events, "body_start")
    /\ nPc' = "body"
    /\ UNCHANGED <<title, written, flushedLen, lineBuffered, bodyOutcome, propagated>>

\* The enclosed operation writes a line of its own.
body_write ==
    /\ UNCHANGED <<styleVars, csvVars, capVars>>
    /\ nPc = "body"
    /\ Len(SelectSeq(written, LAMBDA w : w.by = "body")) < MaxBodyWrites
    /\ StdoutWrite("body", BodyLine)
    /\ UNCHANGED <<nPc, title, lineBuffered, events, bodyOutcome, propagated>>

\* The enclosed operation ends, normally or by raising.
body_end(outcome) ==
    /\ UNCHANGED <<styleVars, csvVars, capVars>>
    /\ nPc = "body"
    /\ bodyOutcome' = outcome
    /\ events' = Append(events, "body_end")
    /\ nPc' = "139"
    /\ UNCHANGED <<title, written, flushedLen, lineBuffered, propagated>>

\* A buggy exit without try/finally: the print is reached on the normal path only.
notify_print_done_no_finally ==
    /\ UNCHANGED <<styleVars, csvVars, capVars>>
    /\ nPc = "139"
    /\ IF bodyOutcome = "normal"
       THEN /\ StdoutWrite("notify", DoneLine)
            /\ events' = Append(events, "print_done")
       ELSE UNCHANGED <<written, flushedLen, events>>
    /\ nPc' = "exit"
    /\ UNCHANGED <<title, lineBuffered, bodyOutcome, propagated>>

\* finally: print(f"Done! {unicodes['check']}"), on both paths.
notify_print_done ==
    /\ UNCHANGED <<styleVars, csvVars, capVars>>
    /\ nPc = "139"
    /\ StdoutWrite("notify", DoneLine)
    /\ events' = Append(events, "print_done")
    /\ nPc' = "exit"
    /\ UNCHANGED <<title, lineBuffered, bodyOutcome, propagated>>

\* A buggy exit that swallows the error (except: pass).
notify_exit_swallow ==
    /\ UNCHANGED <<styleVars, csvVars, capVars>>
    /\ nPc = "exit"
    /\ propagated' = "none"
    /\ events' = Append(events, "return")
    /\ nPc' = "caller_resumed"
    /\ UNCHANGED <<title, written, flushedLen, lineBuffered, bodyOutcome>>

\* The generator ends: after the finally block the pending error, if any,
\* is re-raised and reaches the caller of the with-statement.
notify_exit ==
    /\ UNCHANGED <<styleVars, csvVars, capVars>>
    /\ nPc = "exit"
    /\ propagated' = IF bodyOutcome = "normal" THEN "none" ELSE bodyOutcome
    /\ events' = Append(events, "return")
    /\ nPc' = "caller_resumed"
    /\ UNCHANGED <<title, written, flushedLen, lineBuffered, bodyOutcome>>

NextNotify ==
    \/ \E t \in NotifyTitles : notify_print_loading(t)
    \/ notify_flush
    \/ notify_yield
    \/ body_write
    \/ \E outcome \in BodyOutcomes : body_end(outcome)
    \/ notify_print_done
    \/ notify_exit

(***************************************************************************)
(* ionic.py: csv                                                           *)
(***************************************************************************)

\* The largest row and column counts of the arrays csv is tried with.
MaxRows == 2
MaxCols == 2

Absent == "absent"

RECURSIVE Concat(_)
\* ''.join(parts)
Concat(parts) == IF parts = <<>> THEN <<>> ELSE Head(parts) \o Concat(Tail(parts))

RECURSIVE Join(_, _)
\* sep.join(parts)
Join(parts, sep) ==
    IF parts = <<>> THEN <<>>
    ELSE IF Len(parts) = 1 THEN Head(parts)
    ELSE Head(parts) \o sep \o Join(Tail(parts), sep)

RECURSIVE Split(_, _)
\* text.split(ch) for a one-character separator: always at least one piece.
Split(text, ch) ==
    IF \A i \in DOMAIN text : text[i] # ch THEN <<text>>
    ELSE LET i == CHOOSE j \in DOMAIN text :
                      text[j] = ch /\ \A k \in 1..(j - 1) : text[k] # ch
         IN <<SubSeq(text, 1, i - 1)>> \o Split(SubSeq(text, i + 1, Len(text)), ch)

\* The lines of a text file: the pieces between newlines, without the empty
\* piece after a final newline.
Lines(text) ==
    LET pieces == Split(text, "\n")
    IN IF pieces[Len(pieces)] = <<>> THEN SubSeq(pieces, 1, Len(pieces) - 1) ELSE pieces

\* filename.endswith(suffix)
EndsWith(name, suffix) ==
    /\ Len(name) >= Len(suffix)
    /\ SubSeq(name, Len(name) - Len(suffix) + 1, Len(name)) = suffix

DotCsv == <<".", "c", "s", "v">>

\* if not filename.endswith('.csv'): filename += '.csv'
NormalizeFilename(name) == IF EndsWith(name, DotCsv) THEN name ELSE name \o DotCsv

FilenameInputs == { <<"o", "u", "t">>, <<"o", "u", "t", ".", "c", "s", "v">>, <<"c", "s", "v">> }
FsNames == {NormalizeFilename(f) : f \in FilenameInputs}

\* The header strings csv is tried with: "", "a", "a,b" and "a\nb".
HeaderStrings == { <<>>, <<"a">>, <<"a", ",", "b">>, <<"a", "\n", "b">> }
\* The headers argument: headers=None, or a list of strings.
NoHeaders == [given |-> FALSE, list |-> <<>>]
HeaderList(list) == [given |-> TRUE, list |-> list]
HeaderInputs ==
    {NoHeaders} \cup {HeaderList(l) : l \in UNION {[1..n -> HeaderStrings] : n \in 0..MaxCols}}

\* The arrays csv is tried with: every 2-D shape within the bounds, and one
\* array each of one and of three dimensions.
DataInputs ==
    {[ndim |-> 2, shape |-> <<r, k>>] : r \in 0..MaxRows, k \in 0..MaxCols}
    \cup {[ndim |-> 1, shape |-> <<2>>], [ndim |-> 3, shape |-> <<1, 1, 1>>]}

\* data[r][k] of the array of a given 2-D shape (rows and columns from 1).
Cell(data, r, k) == ((r - 1) * data.shape[2] + (k - 1)) % 10

Digits == <<"0", "1", "2", "3", "4", "5", "6", "7", "8", "9">>
\* '%g' % v for the one-digit values the arrays hold.
FormatG(v) == <<Digits[v + 1]>>

\* One row of np.savetxt: the formatted cells joined by the delimiter, and a newline.
RowText(data, r) ==
    Join([k \in 1..data.shape[2] |-> FormatG(Cell(data, r, k))], <<",">>) \o <<"\n">>

\* np.savetxt(filename, data, delimiter=',', fmt='%g', header=header, comments=''):
\* the text written.  The header line is written only when header is not empty;
\* with comments='' a newline inside it is kept as it is.
SaveTxtText(data, header) ==
    (IF Len(header) > 0 THEN header \o <<"\n">> ELSE <<>>)
    \o Concat([r \in 1..data.shape[1] |-> RowText(data, r)])

\* A buggy header line: the names are joined by a blank.
HeaderLineBlank(headers) == Join(headers, <<" ">>)

\* hdr = ','.join(headers)
HeaderLine(headers) == Join(headers, <<",">>)

\* Python's truth value of the headers argument: None and [] are false.
Truthy(headers) == headers.given /\ headers.list # <<>>

OldContent == <<"o", "l", "d", "\n">>

CsvStart ==
    /\ csvPc = "60"
    /\ cFilename \in FilenameInputs
    /\ cData \in DataInputs
    /\ cHeaders \in HeaderInputs
    /\ hdr = <<>>
    /\ csvRaised = "none"
    /\ fs0 \in {[f \in FsNames |-> Absent], [f \in FsNames |-> OldContent]}
    /\ fs = fs0
    /\ fsWrites = <<>>

\* assert data.ndim == 2
csv_assert_ndim ==
    /\ UNCHANGED <<styleVars, notifyVars, capVars>>
    /\ csvPc = "60"
    /\ IF cData.ndim = 2
       THEN csvPc' = "62" /\ UNCHANGED csvRaised
       ELSE csvPc' = "raised" /\ csvRaised' = "AssertionError: InvalidShape"
    /\ UNCHANGED <<cFilename, cData, cHeaders, hdr, fs0, fs, fsWrites>>

\* if not filename.endswith('.csv'): filename += '.csv'
csv_filename ==
    /\ UNCHANGED <<styleVars, notifyVars, capVars>>
    /\ csvPc = "62"
    /\ cFilename' = NormalizeFilename(cFilename)
    /\ csvPc' = "65"
    /\ UNCHANGED <<cData, cHeaders, hdr, csvRaised, fs0, fs, fsWrites>>

\* if headers: assert ...; hdr = ','.join(headers)  else: hdr = ''
csv_headers ==
    /\ UNCHANGED <<styleVars, notifyVars, capVars>>
    /\ csvPc = "65"
    /\ IF Truthy(cHeaders)
       THEN IF cData.shape[2] = Len(cHeaders.list)
            THEN hdr' = HeaderLine(cHeaders.list) /\ csvPc' = "75" /\ UNCHANGED csvRaised
            ELSE /\ csvRaised' = "AssertionError: HeaderMismatch"
                 /\ csvPc' = "raised"
                 /\ UNCHANGED hdr
       ELSE hdr' = <<>> /\ csvPc' = "75" /\ UNCHANGED csvRaised
    /\ UNCHANGED <<cFilename, cData, cHeaders, fs0, fs, fsWrites>>

\* np.savetxt(filename, data, delimiter=',', fmt=fmt, header=hdr, comments='')
csv_savetxt ==
    /\ UNCHANGED <<styleVars, notifyVars, capVars>>
    /\ csvPc = "75"
    /\ fs' = [fs EXCEPT ![cFilename] = SaveTxtText(cData, hdr)]
    /\ fsWrites' = Append(fsWrites, cFilename)
    /\ csvPc' = "returned"
    /\ UNCHANGED <<cFilename, cData, cHeaders, hdr, csvRaised, fs0>>

NextCsv ==
    \/ csv_assert_ndim
    \/ csv_filename
    \/ csv_headers
    \/ csv_savetxt

(***************************************************************************)
(* ionic.py: the optional capabilities, push and pem                       *)
(***************************************************************************)

\* How many push and pem calls a run makes.
MaxCalls == 3

PushoverWarning == "Pushover not installed, push() function disabled. Use 'pip install python-pushover' to install pushover."
EmojiWarning == "Emoji not installed, strings will not emojize automatically. Use 'pip install emoji' to get this feature."

Messages == {"hello", ":rocket:"}
Titles == {"", ":rocket:"}

\* emoji.emojize(x, use_aliases=True): aliases are replaced by their glyph.
EmojizeLive(x) == IF x = ":rocket:" THEN "U+1F680" ELSE x
\* The fallback defined at import: def emojize(x, *args, **kwargs): return x
EmojizeStub(x) == x
\* A call of whatever the name emojize is bound to.
Emojize(x) == IF emojize = "Live" THEN EmojizeLive(x) ELSE EmojizeStub(x)

\* warnings.warn(text) at line lineno: under the "default" action a warning
\* is shown once for each location and text, under "always" every time.
Warn(text, lineno) ==
    IF filterAction = "always"
    THEN emitted' = Append(emitted, [text |-> text, lineno |-> lineno]) /\ UNCHANGED registry
    ELSE /\ registry' = registry \cup {<<text, lineno>>}
         /\ emitted' = IF <<text, lineno>> \in registry THEN emitted
                       ELSE Append(emitted, [text |-> text, lineno |-> lineno])

NoCapCall == [op |-> "none", message |-> "", title |-> "", raised |-> "none"]

CapStart ==
    /\ importPc = "15"
    /\ pushover_installed \in BOOLEAN
    /\ emoji_installed \in BOOLEAN
    /\ filterAction \in {"default", "always"}
    /\ warning = "unbound"
    /\ Client = "unbound"
    /\ emojize = "unbound"
    /\ registry = {}
    /\ emitted = <<>>
    /\ sent = <<>>
    /\ printed = <<>>
    /\ capLast = NoCapCall
    /\ nCalls = 0

\* try: from pushover import Client / except ImportError: warn, define the stub
import_pushover ==
    /\ UNCHANGED <<styleVars, notifyVars, csvVars>>
    /\ importPc = "15"
    /\ IF pushover_installed
       THEN Client' = "Live" /\ UNCHANGED <<warning, registry, emitted>>
       ELSE /\ warning' = PushoverWarning
            /\ Warn(PushoverWarning, 20)
            /\ Client' = "Stub"
    /\ importPc' = "29"
    /\ UNCHANGED <<pushover_installed, emoji_installed, filterAction, emojize,
                   sent, printed, capLast, nCalls>>

\* try: from emoji import emojize / except ImportError: warn, define the fallback
import_emoji ==
    /\ UNCHANGED <<styleVars, notifyVars, csvVars>>
    /\ importPc = "29"
    /\ IF emoji_installed
       THEN emojize' = "Live" /\ UNCHANGED <<warning, registry, emitted>>
       ELSE /\ warning' = EmojiWarning
            /\ Warn(EmojiWarning, 34)
            /\ emojize' = "Stub"
    /\ importPc' = "imported"
    /\ UNCHANGED <<pushover_installed, emoji_installed, filterAction, Client,
                   sent, printed, capLast, nCalls>>

\* A buggy stub that fails at the call instead of warning.
StubSendMessageRaises(message, title_) ==
    /\ capLast' = [op |-> "push", message |-> message, title |-> title_,
                   raised |-> "ImportError"]
    /\ UNCHANGED <<sent, registry, emitted>>

\* The stub's send_message(self, *args, **kwargs): warnings.warn(warning),
\* with the module global `warning` as it is bound when the call is made.
StubSendMessage(message, title_) ==
    /\ Warn(warning, 27)
    /\ capLast' = [op |-> "push", message |-> message, title |-> title_,
                   raised |-> "none"]
    /\ UNCHANGED sent

\* pushover's Client().send_message(message, title=title): the message is
\* handed to the transport, whose errors are not caught.
LiveSendMessage(message, title_) ==
    /\ UNCHANGED <<registry, emitted>>
    /\ \/ /\ sent' = Append(sent, [message |-> message, title |-> title_])
          /\ capLast' = [op |-> "push", message |-> message, title |-> title_,
                         raised |-> "none"]
       \/ /\ capLast' = [op |-> "push", message |-> message, title |-> title_,
                         raised |-> "TransportError"]
          /\ UNCHANGED sent

\* push(message, title='')
push(message, title_) ==
    /\ UNCHANGED <<styleVars, notifyVars, csvVars>>
    /\ importPc = "imported"
    /\ nCalls < MaxCalls
    /\ nCalls' = nCalls + 1
    /\ IF Client = "Live"
       THEN LiveSendMessage(Emojize(message), Emojize(title_))
       ELSE StubSendMessage(Emojize(message), Emojize(title_))
    /\ UNCHANGED <<importPc, pushover_installed, emoji_installed, filterAction,
                   warning, Client, emojize, printed>>

\* pem(message)
pem(message) ==
    /\ UNCHANGED <<styleVars, notifyVars, csvVars>>
    /\ importPc = "imported"
    /\ nCalls < MaxCalls
    /\ nCalls' = nCalls + 1
    /\ printed' = Append(printed, Emojize(message))
    /\ capLast' = [op |-> "pem", message |-> message, title |-> "", raised |-> "none"]
    /\ UNCHANGED <<importPc, pushover_installed, emoji_installed, filterAction,
                   warning, Client, emojize, registry, emitted, sent>>

NextCap ==
    \/ import_pushover
    \/ import_emoji
    \/ \E message \in Messages, title_ \in Titles : push(message, title_)
    \/ \E message \in Messages : pem(message)

(***************************************************************************)
(* The specifications.  A component that a specification does not run is   *)
(* held in its "off" state.                                                *)
(***************************************************************************)

StyleOff ==
    /\ rcParams = BaselineParams /\ ttflist = <<>> /\ stylePc = "off"
    /\ lastCall = NoCall /\ prevCall = NoCall

NotifyOff ==
    /\ nPc = "off" /\ title = None /\ written = <<>> /\ flushedLen = 0
    /\ lineBuffered = FALSE /\ events = <<>> /\ bodyOutcome = "running"
    /\ propagated = "none"

CsvOff ==
    /\ csvPc = "off" /\ cFilename = <<>> /\ cData = [ndim |-> 2, shape |-> <<0, 0>>]
    /\ cHeaders = NoHeaders /\ hdr = <<>> /\ csvRaised = "none"
    /\ fs0 = [f \in FsNames |-> Absent] /\ fs = fs0 /\ fsWrites = <<>>

CapOff ==
    /\ importPc = "off" /\ pushover_installed = FALSE /\ emoji_installed = FALSE
    /\ filterAction = "default" /\ warning = "unbound" /\ Client = "unbound"
    /\ emojize = "unbound" /\ registry = {} /\ emitted = <<>> /\ sent = <<>>
    /\ printed = <<>> /\ capLast = NoCapCall /\ nCalls = 0

InitStyle == StyleStart /\ NotifyOff /\ CsvOff /\ CapOff
InitNotify == StyleOff /\ NotifyStart /\ CsvOff /\ CapOff
InitCsv == StyleOff /\ NotifyOff /\ CsvStart /\ CapOff
InitCap == StyleOff /\ NotifyOff /\ CsvOff /\ CapStart

SpecStyle == InitStyle /\ [][NextStyle]_vars
\* The presets and set_font alone, without direct set_colors calls.
SpecPresets == InitStyle /\ [][NextPresets]_vars
SpecNotify == InitNotify /\ [][NextNotify]_vars
SpecCsv == InitCsv /\ [][NextCsv]_vars
SpecCap == InitCap /\ [][NextCap]_vars

\* The program as a whole: a session of any one of the components.
Init == InitStyle \/ InitNotify \/ InitCsv \/ InitCap
Next == NextStyle \/ NextNotify \/ NextCsv \/ NextCap
Spec == Init /\ [][Next]_vars

(***************************************************************************)
(* The claims                                                              *)
(***************************************************************************)

IsPrefix(s, t) == Len(s) <= Len(t) /\ \A i \in DOMAIN s : s[i] = t[i]

\* The order of the observable events of one use of notify.
ExpectedOrder == <<"print_loading", "flush", "body_start", "body_end", "print_done", "return">>

\* What notify itself wrote to sys.stdout.
NotifyWrites == SelectSeq(written, LAMBDA w : w.by = "notify")

\* C1: for every title and every outcome of the enclosed operation the events
\* happen in the order loading line printed, flushed, operation starts,
\* operation ends, completion line printed, return to the caller; the loading
\* line is flushed before the operation starts; and when control is back at
\* the caller notify has written exactly the loading line and then the
\* completion line, the latter after everything the operation wrote.
C1_NotifyOrder ==
    nPc # "off" =>
        /\ IsPrefix(events, ExpectedOrder)
        /\ Len(events) >= 3 =>
              /\ written[1] = [by |-> "notify", text |-> LoadingLine(title)]
              /\ flushedLen >= 1
        /\ nPc = "caller_resumed" =>
              /\ events = ExpectedOrder
              /\ NotifyWrites = << [by |-> "notify", text |-> LoadingLine(title)],
                                   [by |-> "notify", text |-> DoneLine] >>
              /\ written[Len(written)].text = DoneLine

\* C1's case: the enclosed operation wrote a line, raised RuntimeError, and
\* control is back at the caller.
C1_Witness ==
    /\ nPc = "caller_resumed"
    /\ bodyOutcome = "RuntimeError"
    /\ Len(written) = 3
    /\ title = "Working"

\* C2: the caller receives exactly the error the enclosed operation raised,
\* and none when it completed normally; an error reaches the caller only
\* after the completion line has been written.
C2_ErrorPropagates ==
    nPc # "off" =>
        /\ nPc = "caller_resumed" =>
              propagated = (IF bodyOutcome = "normal" THEN "none" ELSE bodyOutcome)
        /\ propagated # "none" =>
              /\ Len(written) >= 2
              /\ written[Len(written)] = [by |-> "notify", text |-> DoneLine]

\* C2's case: a ValueError raised by the enclosed operation has reached the caller.
C2_Witness ==
    /\ nPc = "caller_resumed"
    /\ bodyOutcome = "ValueError"
    /\ propagated = "ValueError"

\* C3: a set_font call with a name that is not in available_fonts() raises
\* ValueError and leaves the whole configuration as it was; a call with a
\* name that is in it raises nothing and leaves font.family equal to the name.
C3_SetFontValidated ==
    [][\A name \in FontInputs :
          (stylePc = "idle" /\ stylePc' = "idle"
              /\ lastCall'.op = "set_font" /\ lastCall'.arg = <<name>>) =>
              IF name \in available_fonts
              THEN lastCall'.raised = "none" /\ rcParams'["font.family"] = name
              ELSE lastCall'.raised = "ValueError" /\ rcParams' = rcParams]_vars

\* C3's case: a font was set, and a later set_font with an unknown name
\* raised and left it in place.
C3_Witness ==
    /\ lastCall = Call("set_font", <<"NonexistentFontXYZ">>, "ValueError")
    /\ prevCall.op = "set_font"
    /\ rcParams["font.family"] = "Helvetica"

\* The values light_mode and dark_mode stand for.
LightPresetHeld ==
    /\ \A k \in BgKeys : rcParams[k] = "c.white"
    /\ \A k \in FgKeys : rcParams[k] = "c.gray.v9"
    /\ rcParams["text.color"] = "c.gray.v6"
DarkPresetHeld ==
    /\ \A k \in BgKeys : rcParams[k] = "c.black"
    /\ \A k \in FgKeys : rcParams[k] = "c.gray.v1"
    /\ rcParams["text.color"] = "c.gray.v4"
LightCycle == <<"cycler", "color", "c.dark">>
DarkCycle == <<"cycler", "color", "c.bright">>

\* C4: whenever the last completed call is dark_mode(), all the colour
\* parameters and the colour cycle hold the dark preset's values, whatever
\* calls came before; and the same for light_mode().
C4_LastPresetWins ==
    stylePc = "idle" =>
        /\ lastCall.op = "dark_mode" =>
              DarkPresetHeld /\ rcParams["axes.prop_cycle"] = DarkCycle
        /\ lastCall.op = "light_mode" =>
              LightPresetHeld /\ rcParams["axes.prop_cycle"] = LightCycle

\* C4's case: light_mode() followed immediately by dark_mode().
C4_Witness ==
    /\ stylePc = "idle"
    /\ prevCall.op = "light_mode"
    /\ lastCall.op = "dark_mode"

\* C5: whenever csv is called with a 2-D array and a headers list (the empty
\* list included) whose length differs from the column count, no file is
\* written and the call ends raising HeaderMismatch.
C5_MismatchRaisesBeforeWrite ==
    (csvPc # "off" /\ cData.ndim = 2 /\ cHeaders.given
        /\ Len(cHeaders.list) # cData.shape[2]) =>
        /\ fsWrites = <<>>
        /\ fs = fs0
        /\ csvPc \in {"returned", "raised"} => csvRaised = "AssertionError: HeaderMismatch"

\* The file csv's call wrote to, once it has returned.
Target == fs[cFilename]

\* The data rows of the file, from line `from` on, are the rows of the array.
DataRowsFrom(lines, from) ==
    /\ Len(lines) = from - 1 + cData.shape[1]
    /\ \A r \in 1..cData.shape[1] : lines[from - 1 + r] \o <<"\n">> = RowText(cData, r)

\* Without headers the file holds the data rows and nothing else.
NoHeaderRow ==
    (csvPc \in {"returned", "raised"} /\ cData.ndim = 2 /\ ~cHeaders.given) =>
        /\ csvRaised = "none"
        /\ Target # Absent
        /\ DataRowsFrom(Lines(Target), 1)

\* C6 as stated: for every headers list as long as the column count, the
\* file's first line split at commas is the list and exactly shape[0] data
\* rows follow it; with headers omitted there are exactly shape[0] lines.
C6_HeaderRoundTrip_AsStated ==
    /\ (csvPc \in {"returned", "raised"} /\ cData.ndim = 2 /\ cHeaders.given
          /\ Len(cHeaders.list) = cData.shape[2]) =>
          /\ csvRaised = "none"
          /\ Target # Absent
          /\ Len(Lines(Target)) >= 1
          /\ Split(Lines(Target)[1], ",") = cHeaders.list
          /\ DataRowsFrom(Lines(Target), 2)
    /\ NoHeaderRow

\* A header string that a comma-split line can give back.
PlainHeader(h) == \A i \in DOMAIN h : h[i] \notin {",", "\n"}

\* C6 as amended: the same, for the headers lists whose strings hold no comma
\* and no line break and whose comma-joined line is not empty.
C6_HeaderRoundTrip ==
    /\ (csvPc \in {"returned", "raised"} /\ cData.ndim = 2 /\ cHeaders.given
          /\ Len(cHeaders.list) = cData.shape[2]
          /\ (\A i \in DOMAIN cHeaders.list : PlainHeader(cHeaders.list[i]))
          /\ Join(cHeaders.list, <<",">>) # <<>>) =>
          /\ csvRaised = "none"
          /\ Target # Absent
          /\ Len(Lines(Target)) >= 1
          /\ Split(Lines(Target)[1], ",") = cHeaders.list
          /\ DataRowsFrom(Lines(Target), 2)
    /\ NoHeaderRow

\* C6's case: a 2 x 2 array written with the headers ["a", ""].
C6_Witness ==
    /\ csvPc = "returned"
    /\ cData = [ndim |-> 2, shape |-> <<2, 2>>]
    /\ cHeaders = HeaderList(<< <<"a">>, <<>> >>)
    /\ fs0[cFilename] = OldContent

\* How many of the warnings shown carry the given text.
Shown(text) == Len(SelectSeq(emitted, LAMBDA w : w.text = text))

\* C7: the import never fails, and over the import and all push and pem
\* calls at most one warning is shown for each capability.
C7_OneWarningPerCapability ==
    /\ importPc \in {"off", "15", "29", "imported"}
    /\ Shown(PushoverWarning) <= 1
    /\ Shown(EmojiWarning) <= 1

\* C8: while Client is bound to the stub, no push call raises and nothing is
\* handed to the real transport, with or without emoji installed.
C8_StubPushInert ==
    Client = "Stub" =>
        /\ sent = <<>>
        /\ capLast.op = "push" => capLast.raised = "none"

\* C8's case: a push through the stub, its message emojized by the real emoji.
C8_Witness ==
    /\ Client = "Stub"
    /\ emojize = "Live"
    /\ capLast.op = "push"
    /\ capLast.message = "U+1F680"
    /\ nCalls = MaxCalls

\* No colour parameter and no colour cycle has been changed since the import.
NothingApplied ==
    /\ \A k \in ColorKeys : rcParams[k] = "mpl.default"
    /\ rcParams["axes.prop_cycle"] = <<"cycler", "color", "mpl.default">>

\* C9: in every state reached through the presets, the states between the
\* two statements of a preset included, the colour parameters and the colour
\* cycle are all those of one mode or are all unchanged: no state holds one
\* mode's colour parameters with another colour cycle.
C9_PresetsAtomic ==
    \/ NothingApplied
    \/ LightPresetHeld /\ rcParams["axes.prop_cycle"] = LightCycle
    \/ DarkPresetHeld /\ rcParams["axes.prop_cycle"] = DarkCycle

\* C10: every warning the stub's send_message shows is the Pushover one.
C10_StubWarnsAboutPushover ==
    \A i \in DOMAIN emitted : emitted[i].lineno = 27 => emitted[i].text = PushoverWarning

====
